---- MODULE Spec2Model ----
\* A model of src/lib/event-emitter.ts: the EventEmitter class, its event map,
\* its maxListeners threshold and the synchronous, re-entrant calls its
\* listeners can make while an emit is in progress.
EXTENDS Integers, Sequences, FiniteSets, TLC

\* ------------------------------------------------------------------ bounds

\* The largest number of listeners the event map holds at once, all names
\* together; addListener is called only while it holds fewer.
MaxTotal == 3
\* The largest number of calls the listeners invoked by one outermost call make
\* on the emitter between them.
MaxNested == 1
\* Listeners call methods other than emit, and once() closures exist, only
\* while the map holds at most this many listeners.
MaxBusy == 2
\* The largest number of once() closures in existence at a time.
MaxOnce == 1

\* ------------------------------------------------------------------ values

\* static readonly DEFAULT_MAX_LISTENERS
DEFAULT_MAX_LISTENERS == 10

\* JavaScript values assigned to maxListeners: a number (finite, Infinity, NaN)
\* or a value of another type.
Num(k) == [type |-> "number", kind |-> "finite", v |-> k]
Infinity == [type |-> "number", kind |-> "inf", v |-> 0]
NaN == [type |-> "number", kind |-> "nan", v |-> 0]
StringThree == [type |-> "string", kind |-> "finite", v |-> 3]

\* a === b on these values (NaN is equal to nothing, not even itself)
StrictEquals(a, b) == a.type = b.type /\ a.kind # "nan" /\ b.kind # "nan" /\ a = b

\* isNaN(n) for a value of type number
IsNaN(n) == n.kind = "nan"

\* n < 0 for a value of type number
IsNegative(n) == n.kind = "finite" /\ n.v < 0

\* A listener value. A plain function is known by its name; the closure that
\* once() makes is known by the number of the once() call that made it, and
\* closes over the listener and the eventNames string of that call.
Fn(f) == [fn |-> f, once |-> 0, names |-> <<>>]
OnceListener(id, f, names) == [fn |-> f, once |-> id, names |-> names]
\* an argument value passed to listeners: a string or a function
StringValue(s) == [t |-> "string", s |-> s, l |-> Fn("")]
FunctionValue(l) == [t |-> "function", s |-> "", l |-> l]
\* the value of an unassigned variable (the tests' `let cb: Function`)
Undefined == [fn |-> "undefined", once |-> 0, names |-> <<>>]
\* typeof listener
TypeOf(l) == IF l.fn = "undefined" THEN "undefined" ELSE "function"

\* A string is a sequence of pieces: the separator " " or a word without spaces.
\* Concat is the string itself, as emit(eventName) uses it (emit does not split).
RECURSIVE Concat(_)
Concat(s) == IF s = <<>> THEN "" ELSE Head(s) \o Concat(Tail(s))

\* eventNames.split(' '): a piece for every separator, empty pieces included
RECURSIVE SplitFrom(_, _, _)
SplitFrom(s, i, cur) ==
    IF i > Len(s) THEN <<cur>>
    ELSE IF s[i] = " " THEN <<cur>> \o SplitFrom(s, i + 1, "")
    ELSE SplitFrom(s, i + 1, cur \o s[i])
Split(s) == SplitFrom(s, 1, "")

\* ------------------------------------------------------------------ the Map

\* EventMap = Map<string, Function[]>: the entries in insertion order.
MapHas(m, k) == \E i \in DOMAIN m : m[i].key = k
MapIndex(m, k) == CHOOSE i \in DOMAIN m : m[i].key = k
\* Map.get: the array, or undefined
MapGet(m, k) ==
    IF MapHas(m, k) THEN [defined |-> TRUE, val |-> m[MapIndex(m, k)].val]
    ELSE [defined |-> FALSE, val |-> <<>>]
\* a variant of MapSet that moves a key it overwrites to the end
MapSetMoveToEnd(m, k, v) ==
    Append(SelectSeq(m, LAMBDA e : e.key # k), [key |-> k, val |-> v])
\* a variant of MapSet that puts a new key first
MapSetNewFirst(m, k, v) ==
    IF MapHas(m, k) THEN [m EXCEPT ![MapIndex(m, k)].val = v]
    ELSE <<[key |-> k, val |-> v]>> \o m
\* Map.set: a key already present keeps its position, a new key goes last
MapSet(m, k, v) ==
    IF MapHas(m, k) THEN [m EXCEPT ![MapIndex(m, k)].val = v]
    ELSE Append(m, [key |-> k, val |-> v])
\* a variant of MapDelete that clears the map
MapDeleteAll(m, k) == <<>>
\* Map.delete
MapDelete(m, k) == SelectSeq(m, LAMBDA e : e.key # k)

\* ------------------------------------------------------------------ queries

\* eventNames(): Array.from(this._eventMap.keys())
eventNames(m) == [i \in DOMAIN m |-> m[i].key]

\* listeners(eventName): Object.assign([], this._eventMap.get(String(eventName))),
\* a new array with the elements of the stored one, empty when there is none.
\* (String() of a string is that string.)
listeners(m, eventName) ==
    LET got == MapGet(m, eventName)
    IN  IF got.defined THEN [i \in 1..Len(got.val) |-> got.val[i]] ELSE <<>>

\* listenerCount(eventName)
listenerCount(m, eventName) ==
    LET got == MapGet(m, eventName)
    IN  IF ~got.defined THEN 0 ELSE Len(got.val)

\* the number of listeners the map holds, all names together
RECURSIVE TotalListeners(_)
TotalListeners(m) == IF m = <<>> THEN 0 ELSE Len(Head(m).val) + TotalListeners(Tail(m))

\* ------------------------------------------------------------------ addListener

\* One pass of addListener's loop body after the warning: create the array when
\* the name has none, then unshift or push.
AddOne(m, eventName, l, prepend) ==
    LET m1 == IF ~MapHas(m, eventName) THEN MapSet(m, eventName, <<>>) ELSE m
        arr == MapGet(m1, eventName).val
    IN  MapSet(m1, eventName, IF prepend THEN <<l>> \o arr ELSE Append(arr, l))

\* addListener's loop over eventNames.split(' '), from the i-th name on.
\* The warning's message reads the free identifier `name`, which is no parameter
\* or local of addListener: where the host defines a global `name` (a browser's
\* window.name) the message is built and console.warn is called; where it does
\* not (Node.js) evaluating it throws a ReferenceError out of addListener, the
\* names before it registered, this one and the later ones not.
RECURSIVE AddLoop(_, _, _, _, _, _, _, _)
AddLoop(m, names, i, l, prepend, max, hasName, warned) ==
    IF i > Len(names) THEN [map |-> m, warned |-> warned, threw |-> "none"]
    ELSE LET atMax == StrictEquals(Num(listenerCount(m, names[i])), max)
         IN  IF atMax /\ ~hasName
             THEN [map |-> m, warned |-> warned, threw |-> "ReferenceError"]
             ELSE AddLoop(AddOne(m, names[i], l, prepend), names, i + 1, l, prepend,
                          max, hasName, IF atMax THEN warned + 1 ELSE warned)

\* a variant of AddListenerResult that tests typeof listener after the loop
AddListenerResultCheckLast(m, namesStr, l, prepend, max, hasName) ==
    LET r == AddLoop(m, Split(namesStr), 1, l, prepend, max, hasName, 0)
    IN  IF TypeOf(l) # "function" THEN [map |-> r.map, warned |-> 0, threw |-> "TypeError"]
        ELSE r
\* addListener(eventNames, listener, prepend)
AddListenerResult(m, namesStr, l, prepend, max, hasName) ==
    IF TypeOf(l) # "function" THEN [map |-> m, warned |-> 0, threw |-> "TypeError"]
    ELSE AddLoop(m, Split(namesStr), 1, l, prepend, max, hasName, 0)

\* ------------------------------------------------------------------ removeListener

\* a variant of Filter that drops only the first occurrence
RECURSIVE FilterFirst(_, _)
FilterFirst(s, l) ==
    IF s = <<>> THEN <<>>
    ELSE IF Head(s) = l THEN Tail(s)
    ELSE <<Head(s)>> \o FilterFirst(Tail(s), l)
\* a variant of Filter that also drops the once() closures made for the listener
RECURSIVE FilterByOriginal(_, _)
FilterByOriginal(s, l) ==
    IF s = <<>> THEN <<>>
    ELSE IF Head(s).fn = l.fn THEN FilterByOriginal(Tail(s), l)
    ELSE <<Head(s)>> \o FilterByOriginal(Tail(s), l)
\* currentListeners.filter(l => l !== listener)
RECURSIVE Filter(_, _)
Filter(s, l) ==
    IF s = <<>> THEN <<>>
    ELSE IF Head(s) = l THEN Filter(Tail(s), l)
    ELSE <<Head(s)>> \o Filter(Tail(s), l)

\* currentListeners !== newListeners compares two array objects by reference;
\* Array.prototype.filter always returns a new array, so they always differ.
DifferentArrayObjects(currentListeners, newListeners) == TRUE

\* a variant of RemoveOne that stores the empty array instead of deleting the entry
RemoveOneKeepEmpty(m, eventName, l) ==
    LET currentListeners == listeners(m, eventName)
        newListeners == Filter(currentListeners, l)
    IN  IF DifferentArrayObjects(currentListeners, newListeners)
        THEN [map |-> MapSet(m, eventName, newListeners), emits |-> newListeners # <<>>]
        ELSE [map |-> m, emits |-> FALSE]
\* One pass of removeListener's loop body: the map after it, and whether it goes
\* on to call this.emit('removeListener', eventName, listener).
RemoveOne(m, eventName, l) ==
    LET currentListeners == listeners(m, eventName)
        newListeners == Filter(currentListeners, l)
    IN  IF Len(newListeners) = 0
        THEN [map |-> MapDelete(m, eventName), emits |-> FALSE]
        ELSE IF DifferentArrayObjects(currentListeners, newListeners)
        THEN [map |-> MapSet(m, eventName, newListeners), emits |-> TRUE]
        ELSE [map |-> m, emits |-> FALSE]

\* ------------------------------------------------------------------ emit

\* a variant of EmitIsEmpty that is off by one
EmitIsEmptyOffByOne(ls) == Len(ls) <= 1
\* emit's early return: listeners.length === 0
EmitIsEmpty(ls) == Len(ls) = 0

\* ------------------------------------------------------------------ state

VARIABLES
    eventMap,       \* _eventMap
    maxListeners,   \* _maxListeners
    stack,          \* the emit and removeListener calls in progress, innermost last
    nested,         \* the calls listeners have made since the outermost call began
    fired,          \* per once() closure still referenced: how often it was invoked
                    \* (2: twice or more)
    last            \* the most recent call or step and its outcome

vars == <<eventMap, maxListeners, stack, nested, fired, last>>

\* the strings passed as eventNames / eventName
NameStrings == { <<"x">>, <<"x", " ", "y">>, <<"removeListener">> }
\* the plain functions passed as listeners
Fns == { Fn("f"), Fn("g") }
\* the plain functions passed to once
OnceFns == { Fn("f") }
\* the strings passed to once as eventNames
OnceNames == { <<"x">>, <<"x", " ", "y">> }
\* the argument lists passed to emit
ArgLists == { <<StringValue("arg1"), StringValue("arg2")>> }
\* the values assigned to maxListeners
MaxInputs == { Num(0), Num(1), Num(-1), NaN, StringThree }

Top == stack[Len(stack)]
Pop(s) == SubSeq(s, 1, Len(s) - 1)
SetTop(s, f) == [s EXCEPT ![Len(s)] = f]

\* The caller of a public method: the program outside (no call in progress) or
\* the body of the listener that the innermost emit is invoking.
\* (Listeners pass functions; only the program outside passes undefined.)
UserCode ==
    IF stack = <<>> THEN TRUE
    ELSE /\ Top.kind = "emit"
         /\ Top.phase = "user"
         /\ nested < MaxNested
\* whether the caller is one that adds or removes listeners
Changes == stack # <<>> => TotalListeners(eventMap) <= MaxBusy
\* whether the map has room for the listener l, should a call add it
Fits(l) == TypeOf(l) = "function" => TotalListeners(eventMap) < MaxTotal
\* the count of nested calls after user code has made one more call
Called == IF stack = <<>> THEN 0 ELSE nested + 1
\* the count of nested calls once the frames s are what is left
Left(s) == IF s = <<>> THEN 0 ELSE nested

\* An emit in progress: its arguments, its copy of the listeners (atCall: what
\* the map held for the name when emit was called), forEach's position k, and
\* what runs: the body of the k-th listener ("user"), the removeListener call of
\* a once() closure ("remove"), or nothing any more ("done"); invoked: the calls
\* made so far; first, before: whether the running call is the first one of a
\* once() closure, and listenerCount of the name when it began.
EmitFrame(name, args, ls, atCall) ==
    [kind |-> "emit", name |-> name, args |-> args, listeners |-> ls, atCall |-> atCall,
     k |-> 1, phase |-> "done", invoked |-> <<>>, first |-> FALSE, before |-> 0]
\* A removeListener in progress, waiting for its emit('removeListener') to
\* return: the split names, the listener, the next position of the loop.
RemoveFrame(names, l, i) == [kind |-> "remove", names |-> names, l |-> l, i |-> i]

\* Whether the once() closure numbered id is still referenced: by the map m, or
\* by a call in progress among s (emit's copy of the listeners, or the
\* listener argument of a removeListener).
Referenced(id, m, s) ==
    \/ \E i \in DOMAIN m : \E j \in DOMAIN m[i].val : m[i].val[j].once = id
    \/ \E d \in DOMAIN s :
           IF s[d].kind = "emit"
           THEN \E j \in DOMAIN s[d].listeners : s[d].listeners[j].once = id
           ELSE s[d].l.once = id
\* the counts f, kept for the closures still referenced
Counted(f, m, s) == [id \in 1..MaxOnce |-> IF Referenced(id, m, s) THEN f[id] ELSE 0]

Init ==
    /\ eventMap = <<>>
    /\ maxListeners = Num(DEFAULT_MAX_LISTENERS)
    /\ stack = <<>>
    /\ nested = 0
    /\ fired = [id \in 1..MaxOnce |-> 0]
    /\ last = [op |-> "new"]

\* Whether the host defines the global `name`: both cases where a call may read
\* it (some listed name's count equals maxListeners), one case where it does not.
GlobalNameDefined(s, l, prepend) ==
    IF \E i \in DOMAIN Split(s) :
           StrictEquals(Num(listenerCount(eventMap, Split(s)[i])), maxListeners)
    THEN BOOLEAN ELSE {TRUE}

\* what an addListener call leaves in `last`
Added(s, l, r) ==
    IF r.threw = "none"
    THEN [op |-> "addListener", threw |-> r.threw, names |-> s, l |-> l]
    ELSE IF r.threw = "TypeError"
    THEN [op |-> "addListener", threw |-> r.threw, several |-> Len(Split(s)) > 1]
    ELSE [op |-> "addListener", threw |-> r.threw]

\* the number of listeners the map m may hold
Room(m) ==
    IF \E id \in 1..MaxOnce : Referenced(id, m, <<>>) THEN MaxBusy ELSE MaxTotal

\* addListener(eventNames, listener, prepend), also reached as on(...)
AddListenerCall(s, l, prepend, hasName) ==
    LET r == AddListenerResult(eventMap, s, l, prepend, maxListeners, hasName)
    IN  /\ UserCode
        /\ Changes
        /\ (l = Undefined => stack = <<>>)
        /\ TotalListeners(r.map) <= Room(r.map)
        /\ eventMap' = r.map
        /\ last' = Added(s, l, r)
        /\ nested' = Called
        /\ UNCHANGED <<maxListeners, stack, fired>>

AddListener ==
    /\ UserCode
    /\ Changes
    /\ \E l \in Fns \cup {Undefined} :
           /\ Fits(l)
           /\ \E s \in NameStrings, prepend \in BOOLEAN :
                  \E hasName \in GlobalNameDefined(s, l, prepend) :
                      AddListenerCall(s, l, prepend, hasName)

\* prependListener(eventNames, listener): return this.addListener(eventNames, listener, true)
PrependListenerCall(s, l, hasName) == AddListenerCall(s, l, TRUE, hasName)

PrependListener ==
    /\ UserCode
    /\ Changes
    /\ \E l \in Fns \cup {Undefined} :
           /\ Fits(l)
           /\ \E s \in NameStrings :
                  \E hasName \in GlobalNameDefined(s, l, TRUE) :
                      PrependListenerCall(s, l, hasName)

\* once(eventNames, listener, prepend): make the closure, then addListener it
OnceCall(s, f, prepend, hasName) ==
    LET free == { id \in 1..MaxOnce : ~Referenced(id, eventMap, stack) }
        onceListener == OnceListener(CHOOSE id \in free : \A other \in free : id <= other,
                                     f.fn, s)
        r == AddListenerResult(eventMap, s, onceListener, prepend, maxListeners, hasName)
    IN  /\ stack = <<>>
        /\ free # {}
        /\ TotalListeners(r.map) <= MaxBusy
        /\ eventMap' = r.map
        /\ last' = [op |-> "once", threw |-> r.threw]
        /\ nested' = Called
        /\ UNCHANGED <<maxListeners, stack, fired>>

Once ==
    /\ stack = <<>>
    /\ TotalListeners(eventMap) < MaxBusy
    /\ \E s \in OnceNames, f \in OnceFns, prepend \in BOOLEAN :
           \E hasName \in GlobalNameDefined(s, f, prepend) : OnceCall(s, f, prepend, hasName)

\* prependOnce(eventNames, listener): return this.once(eventNames, listener, true)
PrependOnceCall(s, f, hasName) == OnceCall(s, f, TRUE, hasName)

PrependOnce ==
    /\ stack = <<>>
    /\ TotalListeners(eventMap) < MaxBusy
    /\ \E s \in OnceNames, f \in OnceFns :
           \E hasName \in GlobalNameDefined(s, f, TRUE) : PrependOnceCall(s, f, hasName)

\* removeAllListeners(eventName)
RemoveAllListenersCall(s) ==
    /\ UserCode
    /\ Changes
    /\ eventMap' = MapDelete(eventMap, Concat(s))
    /\ last' = [op |-> "removeAllListeners"]
    /\ nested' = Called
    /\ fired' = Counted(fired, eventMap', stack)
    /\ UNCHANGED <<maxListeners, stack>>

RemoveAllListeners == UserCode /\ Changes /\ \E s \in NameStrings : RemoveAllListenersCall(s)

\* a variant of SetMaxResult that stores a negative number before it throws
SetMaxResultStoreFirst(old, n) ==
    IF n.type # "number" \/ IsNaN(n) THEN [max |-> old, threw |-> "TypeError"]
    ELSE IF IsNegative(n) THEN [max |-> n, threw |-> "RangeError"]
    ELSE IF StrictEquals(n, Num(0)) THEN [max |-> Infinity, threw |-> "none"]
    ELSE [max |-> n, threw |-> "none"]
\* a variant of SetMaxResult that stores 0 as it is
SetMaxResultZero(old, n) ==
    IF n.type # "number" \/ IsNaN(n) THEN [max |-> old, threw |-> "TypeError"]
    ELSE IF IsNegative(n) THEN [max |-> old, threw |-> "RangeError"]
    ELSE [max |-> n, threw |-> "none"]
\* the maxListeners setter: the stored value after `maxListeners = n`, and what it threw
SetMaxResult(old, n) ==
    IF n.type # "number" \/ IsNaN(n) THEN [max |-> old, threw |-> "TypeError"]
    ELSE IF IsNegative(n) THEN [max |-> old, threw |-> "RangeError"]
    ELSE IF StrictEquals(n, Num(0)) THEN [max |-> Infinity, threw |-> "none"]
    ELSE [max |-> n, threw |-> "none"]

\* set maxListeners(n)
SetMaxListenersCall(n) ==
    LET r == SetMaxResult(maxListeners, n)
    IN  /\ stack = <<>>
        /\ maxListeners' = r.max
        /\ last' = [op |-> "setMaxListeners", threw |-> r.threw]
        /\ nested' = Called
        /\ UNCHANGED <<eventMap, stack, fired>>

SetMaxListeners == stack = <<>> /\ \E n \in MaxInputs : SetMaxListenersCall(n)

\* forEach's callback argument at position k: the element of the array it
\* iterates, which is emit's own copy (m is the map at that moment)
NextListenerLive(fr, k, m) ==
    LET live == listeners(m, fr.name)
    IN  IF k <= Len(live) THEN live[k] ELSE fr.listeners[k]
NextListener(fr, k, m) == fr.listeners[k]

\* listeners.forEach comes to position k of the emit frame fr: past the last
\* element it is done; else it calls Reflect.apply(listener, this, args), and
\* the listener's body runs (for a once() closure that is onceListener, which
\* first calls listener(...args)). m, f: the map and the counts at that moment.
ForEach(fr, k, m, f) ==
    IF k > Len(fr.listeners)
    THEN [frame |-> [fr EXCEPT !.k = k, !.phase = "done", !.first = FALSE, !.before = 0],
          fired |-> f]
    ELSE LET l == NextListener(fr, k, m)
             isFirst == IF l.once = 0 THEN FALSE ELSE f[l.once] = 0
         IN  [frame |-> [fr EXCEPT
                    !.k = k,
                    !.phase = "user",
                    !.invoked = Append(@, [l |-> l, args |-> fr.args]),
                    !.first = isFirst,
                    !.before = IF isFirst THEN listenerCount(m, fr.name) ELSE 0],
              fired |-> IF l.once = 0 THEN f
                        ELSE [f EXCEPT ![l.once] = IF @ < 2 THEN @ + 1 ELSE @]]

\* a variant of EmitStart in which an emit called by a listener takes the place
\* of the emit that invoked the listener
EmitStartShared(m, s, name, args, f) ==
    LET ls == listeners(m, name)
        go == ForEach(EmitFrame(name, args, ls, MapGet(m, name).val), 1, m, f)
    IN  IF EmitIsEmpty(ls)
        THEN [stack |-> s, ret |-> "false", fired |-> f]
        ELSE [stack |-> Append(IF s = <<>> THEN s ELSE Pop(s), go.frame),
              ret |-> "pending", fired |-> go.fired]
\* A call of emit(name, ...args) up to the body of the first listener: take the
\* copy, return false when it is empty, else start forEach. m: the map at the
\* call, s: the calls in progress, f: the counts.
EmitStart(m, s, name, args, f) ==
    LET ls == listeners(m, name)
        go == ForEach(EmitFrame(name, args, ls, MapGet(m, name).val), 1, m, f)
    IN  IF EmitIsEmpty(ls)
        THEN [stack |-> s, ret |-> "false", fired |-> f]
        ELSE [stack |-> Append(s, go.frame), ret |-> "pending", fired |-> go.fired]

\* emit(eventName, ...args), called by user code
EmitCall(s, args) ==
    LET r == EmitStart(eventMap, stack, Concat(s), args, fired)
    IN  /\ UserCode
        /\ stack' = r.stack
        /\ fired' = r.fired
        /\ last' = [op |-> "emit", ret |-> r.ret]
        /\ nested' = Called
        /\ UNCHANGED <<eventMap, maxListeners>>

Emit == UserCode /\ \E s \in NameStrings, args \in ArgLists : EmitCall(s, args)

\* forEach has passed the last element: return true
EmitReturn ==
    /\ stack # <<>>
    /\ Top.kind = "emit"
    /\ Top.phase = "done"
    /\ stack' = Pop(stack)
    /\ last' = [op |-> "emit", ret |-> "true"]
    /\ nested' = Left(stack')
    /\ fired' = Counted(fired, eventMap, stack')
    /\ UNCHANGED <<eventMap, maxListeners>>

\* how often l occurs in s
RECURSIVE Occurrences(_, _)
Occurrences(s, l) ==
    IF s = <<>> THEN 0
    ELSE (IF Head(s) = l THEN 1 ELSE 0) + Occurrences(Tail(s), l)

\* what one pass of removeListener's loop did: how often the name held the
\* listener, how many listeners it keeps, whether emit('removeListener') was called
Pass(m, eventName, l, r) ==
    [name |-> eventName, found |-> Occurrences(listeners(m, eventName), l),
     kept |-> listenerCount(r.map, eventName), emits |-> r.emits]

\* removeListener's loop over eventNames.split(' ') from the i-th name on, up
\* to its end or to the first this.emit('removeListener', ...) that finds
\* listeners to invoke. log: the passes made.
RECURSIVE RemoveLoop(_, _, _, _, _)
RemoveLoop(m, names, i, l, log) ==
    IF i > Len(names) THEN [map |-> m, i |-> i, log |-> log, pending |-> FALSE]
    ELSE LET r == RemoveOne(m, names[i], l)
             logged == Append(log, Pass(m, names[i], l, r))
         IN  IF r.emits /\ ~EmitIsEmpty(listeners(r.map, "removeListener"))
             THEN [map |-> r.map, i |-> i + 1, log |-> logged, pending |-> TRUE]
             ELSE RemoveLoop(r.map, names, i + 1, l, logged)

\* what `last` keeps of a removeListener run: whether it took the listener (two
\* or more occurrences of it) from a name that keeps listeners, and whether it
\* emptied a name
Removed(log) ==
    [op |-> "removeListener", threw |-> "none",
     shrunk |-> \E j \in DOMAIN log : log[j].found >= 1 /\ log[j].kept >= 1,
     twice |-> \E j \in DOMAIN log : log[j].found >= 2 /\ log[j].kept >= 1,
     emptied |-> \E j \in DOMAIN log : log[j].found >= 1 /\ log[j].kept = 0]

\* A removeListener call returns to the caller whose frames are s: user code,
\* or the once() closure, which returns to forEach, which goes on.
Returned(s, m, f) ==
    IF s = <<>> THEN [stack |-> s, fired |-> f]
    ELSE IF s[Len(s)].kind = "emit" /\ s[Len(s)].phase = "remove"
    THEN LET go == ForEach(s[Len(s)], s[Len(s)].k + 1, m, f)
         IN  [stack |-> SetTop(s, go.frame), fired |-> go.fired]
    ELSE [stack |-> s, fired |-> f]

\* removeListener(eventNames, listener) from the i-th name on, called from the
\* frames s: the map after it, and the calls in progress (its own frame under
\* the emit('removeListener') it waits for, or the caller's when it has returned).
RemoveRun(m, s, names, i, l, f) ==
    LET res == RemoveLoop(m, names, i, l, <<>>)
        waiting == Append(s, RemoveFrame(names, l, res.i))
        args == <<StringValue(names[res.i - 1]), FunctionValue(l)>>
        to == IF res.pending THEN EmitStart(res.map, waiting, "removeListener", args, f)
              ELSE Returned(s, res.map, f)
    IN  [map |-> res.map, log |-> res.log, i |-> res.i, stack |-> to.stack,
         fired |-> Counted(to.fired, res.map, to.stack)]

\* The listener's body returns. A plain listener: forEach goes on. A once()
\* closure: listener(...args) has returned and onceListener calls
\* this.removeListener(eventNames, onceListener).
ListenerReturn ==
    /\ stack # <<>>
    /\ Top.kind = "emit"
    /\ Top.phase = "user"
    /\ LET l == Top.listeners[Top.k]
           go == ForEach(Top, Top.k + 1, eventMap, fired)
           r == RemoveRun(eventMap, SetTop(stack, [Top EXCEPT !.phase = "remove"]),
                          Split(l.names), 1, l, fired)
       IN  IF l.once = 0
           THEN /\ stack' = SetTop(stack, go.frame)
                /\ fired' = go.fired
                /\ eventMap' = eventMap
                /\ last' = [op |-> "return"]
           ELSE /\ stack' = r.stack
                /\ fired' = r.fired
                /\ eventMap' = r.map
                /\ last' = Removed(r.log)
    /\ UNCHANGED <<maxListeners, nested>>

\* a variant of Unwind in which emit catches the exception and forEach goes on
UnwindCaught(s) ==
    SetTop(s, ForEach(s[Len(s)], s[Len(s)].k + 1, eventMap, fired).frame)
\* The frames an exception thrown in the innermost listener leaves: emit does not
\* catch, nor does removeListener around its emit('removeListener'), nor does
\* onceListener; the exception travels out until it reaches the body of a listener
\* (which may catch it) or the program outside.
RECURSIVE Unwind(_)
Unwind(s) ==
    LET rest == Pop(s)
    IN  IF rest = <<>> THEN rest
        ELSE IF rest[Len(rest)].kind = "emit" /\ rest[Len(rest)].phase = "user" THEN rest
        ELSE Unwind(rest)

\* The listener's body throws (or lets an exception of a call it made escape).
ListenerRaise ==
    /\ stack # <<>>
    /\ Top.kind = "emit"
    /\ Top.phase = "user"
    /\ stack' = Unwind(stack)
    /\ last' = [op |-> "raise", between |-> 1 < Top.k /\ Top.k < Len(Top.listeners)]
    /\ nested' = Left(stack')
    /\ fired' = Counted(fired, eventMap, stack')
    /\ UNCHANGED <<eventMap, maxListeners>>

\* removeListener(eventNames, listener), also reached as off(...), called by user code
RemoveListenerCall(s, l) ==
    LET r == RemoveRun(eventMap, stack, Split(s), 1, l, fired)
    IN  /\ UserCode
        /\ Changes
        /\ (l = Undefined => stack = <<>>)
        /\ IF TypeOf(l) # "function"
           THEN /\ stack' = stack
                /\ fired' = fired
                /\ eventMap' = eventMap
                /\ last' = [op |-> "removeListener", threw |-> "TypeError"]
           ELSE /\ stack' = r.stack
                /\ fired' = r.fired
                /\ eventMap' = r.map
                /\ last' = Removed(r.log)
        /\ nested' = Called
        /\ UNCHANGED maxListeners

RemoveListener ==
    /\ UserCode
    /\ Changes
    /\ \E s \in NameStrings, l \in Fns \cup {Undefined} : RemoveListenerCall(s, l)

\* removeListener's emit('removeListener') has returned: the loop goes on
RemoveResume ==
    /\ stack # <<>>
    /\ Top.kind = "remove"
    /\ LET r == RemoveRun(eventMap, Pop(stack), Top.names, Top.i, Top.l, fired)
       IN  /\ stack' = r.stack
           /\ fired' = r.fired
           /\ eventMap' = r.map
           /\ last' = [op |-> "removeResume"]
    /\ nested' = Left(stack')
    /\ UNCHANGED maxListeners

Next ==
    \/ AddListener
    \/ PrependListener
    \/ Once
    \/ PrependOnce
    \/ RemoveListener
    \/ RemoveResume
    \/ RemoveAllListeners
    \/ Emit
    \/ ListenerReturn
    \/ ListenerRaise
    \/ EmitReturn
    \/ SetMaxListeners

Spec == Init /\ [][Next]_vars

\* ------------------------------------------------------------------ properties

Range(s) == { s[i] : i \in DOMAIN s }
\* the names the calls above can use as map keys or look up
AllNames == UNION { Range(Split(s)) \cup {Concat(s)} : s \in NameStrings }
\* the eventNames strings that hold one name
SingleNames == { s \in NameStrings : Len(Split(s)) = 1 }
\* whether `last` tells of a removeListener call that did not throw
HasRemoved == IF last.op = "removeListener" THEN last.threw = "none" ELSE FALSE
\* whether the frame fr is an emit that has come to the end of its forEach
Finished(fr) == IF fr.kind = "emit" THEN fr.phase = "done" ELSE FALSE

\* C1: every emit in progress has invoked, in order, a prefix of the listeners
\* the map held for the name when emit was called, whatever the listeners did
\* to the map since; when it comes to return it has invoked exactly all of them.
C1_EmitInvokesSnapshot ==
    \A d \in DOMAIN stack :
        IF stack[d].kind # "emit" THEN TRUE
        ELSE LET fr == stack[d]
                 n == Len(fr.invoked)
             IN  /\ n <= Len(fr.atCall)
                 /\ n = (IF fr.phase = "done" THEN fr.k - 1 ELSE fr.k)
                 /\ \A i \in 1..n : fr.invoked[i].l = fr.atCall[i]
                 /\ Finished(fr) => n = Len(fr.atCall)

\* a listener has returned and emit has invoked the next one, which an earlier
\* listener of the same emission had removed from the map
C1_Witness ==
    IF stack = <<>> THEN FALSE
    ELSE IF Top.kind # "emit" THEN FALSE
    ELSE /\ last.op = "return"
         /\ Top.phase = "user"
         /\ Top.k >= 2
         /\ Top.atCall[Top.k] \notin Range(listeners(eventMap, Top.name))
         /\ \A i \in 1..(Top.k - 1) : Top.atCall[i] # Top.atCall[Top.k]

\* what a step of emit does, call by call
C2_EmitStep ==
    /\ \A s \in NameStrings, args \in ArgLists :
           (last'.op = "emit" /\ EmitCall(s, args)) =>
               IF listenerCount(eventMap, Concat(s)) = 0
               THEN last'.ret = "false" /\ stack' = stack /\ fired' = fired
               ELSE /\ last'.ret = "pending"
                    /\ Len(stack') = Len(stack) + 1
                    /\ stack'[Len(stack')].atCall = MapGet(eventMap, Concat(s)).val
                    /\ stack'[Len(stack')].args = args
    /\ \A d \in DOMAIN stack' :
           IF stack'[d].kind # "emit" THEN TRUE
           ELSE LET fr == stack'[d]
                IN  \A i \in DOMAIN fr.invoked :
                        fr.invoked[i] = [l |-> fr.atCall[i], args |-> fr.args]
    /\ EmitReturn =>
           /\ last'.ret = "true"
           /\ Len(Top.atCall) > 0
           /\ Len(Top.invoked) = Len(Top.atCall)
\* C2: emit called for a name without listeners returns false and leaves no call
\* in progress (nothing is invoked); called for a name with listeners it starts
\* on exactly the sequence the map holds, every invocation passes the next
\* listener of that sequence the arguments of the emit call, and the return,
\* which is true, comes when each has been invoked once, in sequence order.
C2_EmitResult == [][C2_EmitStep]_vars

\* an emit is about to return true after it invoked two or more listeners
C2_Witness ==
    IF stack = <<>> THEN FALSE
    ELSE IF ~Finished(Top) THEN FALSE
    ELSE /\ Len(Top.invoked) >= 2
         /\ Top.invoked[1].l # Top.invoked[2].l
         /\ Top.atCall = listeners(eventMap, Top.name)

\* C3: the listener passed to a once() call is invoked at most once in total
C3_OnceAtMostOnce == \A id \in 1..MaxOnce : fired[id] <= 1

\* whether this step ends the first invocation of a once() closure that the
\* emit frame at depth d made, and what such a step leaves
C4_FirstFiringEnds(d) ==
    IF stack[d].kind # "emit" THEN FALSE
    ELSE IF stack[d].phase = "done" \/ ~stack[d].first THEN FALSE
    ELSE IF Len(stack') < d THEN TRUE
    ELSE stack'[d].k # stack[d].k
C4_Step ==
    \A d \in DOMAIN stack :
        C4_FirstFiringEnds(d) =>
            LET fr == stack[d]
            IN  /\ fr.listeners[fr.k] \notin Range(listeners(eventMap', fr.name))
                /\ nested = 0 => listenerCount(eventMap', fr.name) = fr.before - 1
\* C4: the step that ends the first invocation of a once() closure (its
\* removeListener returning to forEach, or an exception leaving it) leaves the
\* closure absent from listeners(name), and, when no listener made a call of its
\* own meanwhile, listenerCount(name) one lower than when the closure was invoked.
C4_OnceRemovedAfterFirstFiring == [][C4_Step]_vars

\* C5: the map has no entry with an empty array and no key twice; a name is in
\* eventNames() iff its listenerCount is positive, and listenerCount(name) is
\* the length of listeners(name).
C5_EntryIffNonEmpty ==
    /\ \A i \in DOMAIN eventMap : eventMap[i].val # <<>>
    /\ \A i, j \in DOMAIN eventMap : eventMap[i].key = eventMap[j].key => i = j
    /\ \A n \in AllNames :
           /\ MapHas(eventMap, n) <=> listeners(eventMap, n) # <<>>
           /\ n \in Range(eventNames(eventMap)) <=> listenerCount(eventMap, n) > 0
           /\ listenerCount(eventMap, n) = Len(listeners(eventMap, n))

\* a removeListener call has taken the last listener of the map away
C5_Witness == IF ~HasRemoved THEN FALSE ELSE last.emptied /\ eventMap = <<>>

\* the names a removeListener call from the frames `stack` has passed when it
\* returns or waits for its emit('removeListener')
Passed(s) ==
    IF Len(stack') > Len(stack) THEN stack'[Len(stack) + 1].i - 1 ELSE Len(Split(s))

\* what a removeListener call leaves under the names it has passed
C6_Step ==
    \A s \in NameStrings, l \in Fns :
        (last'.op = "removeListener" /\ RemoveListenerCall(s, l)) =>
            \A j \in 1..Passed(s) :
                LET n == Split(s)[j]
                    rest == SelectSeq(listeners(eventMap, n), LAMBDA x : x # l)
                IN  /\ listeners(eventMap', n) = rest
                    /\ rest = <<>> => ~MapHas(eventMap', n)
\* C6: removeListener(name, l) leaves under name the former sequence without
\* any occurrence of l, the others in their former order, and no entry for
\* name when nothing remains.
C6_RemovesEveryOccurrence == [][C6_Step]_vars

\* a removeListener call took two occurrences of the listener from a name that
\* keeps another listener
C6_Witness == IF ~HasRemoved THEN FALSE ELSE last.twice /\ eventMap # <<>>

\* the name whose emit('removeListener') a removeListener call waits for
Waiting(s) == Split(s)[Passed(s)]

\* what a removeListener call does for a name that does not hold the listener
C7_Step ==
    \A s \in NameStrings, l \in Fns :
        (last'.op = "removeListener" /\ RemoveListenerCall(s, l)) =>
            /\ Len(stack') > Len(stack) => l \in Range(listeners(eventMap, Waiting(s)))
            /\ \A j \in 1..Passed(s) :
                   LET n == Split(s)[j]
                       old == listeners(eventMap, n)
                   IN  (l \notin Range(old) \/ old = <<>>) =>
                           listeners(eventMap', n) = old
\* C7: a removeListener call invokes the listeners of 'removeListener' only for
\* a name whose sequence held the listener; for a name without listeners, or
\* without this one, the call leaves the sequence as it was.
C7_MetaEventOnlyOnChange == [][C7_Step]_vars

\* the map after removeListener(s, l) is called in the state an addListener
\* call has just left (up to the first emit('removeListener') that has
\* listeners to invoke), compared with the map before the addListener call
RoundTrip(s, l) ==
    LET n == Concat(s)
        after == RemoveRun(eventMap', stack', Split(s), 1, l, fired').map
    IN  /\ listenerCount(after, n) = listenerCount(eventMap, n)
        /\ eventNames(after) = eventNames(eventMap)
        /\ listeners(after, n) = listeners(eventMap, n)

\* whether this step is a call addListener(s, l, ...) that registered l
AddedBy(s, l) ==
    IF last'.op # "addListener" THEN FALSE
    ELSE IF last'.threw # "none" THEN FALSE
    ELSE IF last'.names # s \/ last'.l # l THEN FALSE
    ELSE \E prepend, hasName \in BOOLEAN : AddListenerCall(s, l, prepend, hasName)

\* the round trip for every listener
C8_OriginalStep ==
    \A s \in SingleNames, l \in Fns : AddedBy(s, l) => RoundTrip(s, l)
\* C8 as stated: addListener(name, l) directly followed by removeListener(name, l)
\* leaves listenerCount(name), eventNames() and listeners(name) as they were
\* before the addListener call, for every listener l.
C8_Original == [][C8_OriginalStep]_vars

\* the round trip for a listener the name did not hold
C8_AmendedStep ==
    \A s \in SingleNames, l \in Fns :
        IF l \in Range(listeners(eventMap, Concat(s))) THEN TRUE
        ELSE AddedBy(s, l) => RoundTrip(s, l)
\* C8: for a listener l that name did not hold before, addListener(name, l)
\* directly followed by removeListener(name, l) leaves listenerCount(name),
\* eventNames() and listeners(name) as they were before the addListener call
\* (compared when removeListener has updated the map, before any listener of
\* 'removeListener' runs).
C8_AddThenRemoveOfNewListener == [][C8_AmendedStep]_vars

\* an addListener call has put a listener under a name that did not hold it
\* and holds others, the first of two or more names in the map
C8_Witness ==
    IF last.op # "addListener" THEN FALSE
    ELSE IF last.threw # "none" \/ last.names \notin SingleNames THEN FALSE
    ELSE /\ Len(eventMap) >= 2
         /\ eventMap[1].key = Concat(last.names)
         /\ Len(eventMap[1].val) >= 2
         /\ Occurrences(eventMap[1].val, last.l) = 1

\* where an addListener call puts the listener
C9_Step ==
    \A s \in SingleNames, l \in Fns, hasName \in BOOLEAN :
        LET n == Concat(s)
            old == listeners(eventMap, n)
        IN  last'.op = "addListener" =>
                /\ \A prepend \in BOOLEAN :
                       AddListenerCall(s, l, prepend, hasName) =>
                           listeners(eventMap', n) =
                               (IF prepend THEN <<l>> \o old ELSE Append(old, l))
                /\ PrependListenerCall(s, l, hasName) <=>
                       AddListenerCall(s, l, TRUE, hasName)
\* C9: addListener(name, l, prepend) puts l at index 0 of name's sequence when
\* prepend is true and at its end otherwise, the listeners already there
\* keeping their order; prependListener(name, l) does what
\* addListener(name, l, true) does.
C9_InsertAtFrontOrEnd == [][C9_Step]_vars

\* what addListener and removeListener leave under each listed name
C10_Step ==
    \A s \in NameStrings \ SingleNames, l \in Fns :
        /\ \A prepend, hasName \in BOOLEAN :
               (last'.op = "addListener" /\ AddListenerCall(s, l, prepend, hasName)) =>
                   \A j \in DOMAIN Split(s) :
                       l \in Range(listeners(eventMap', Split(s)[j]))
        /\ (last'.op = "removeListener" /\ RemoveListenerCall(s, l)) =>
               \A j \in 1..Passed(s) :
                   l \notin Range(listeners(eventMap', Split(s)[j]))
\* C10: addListener with a list of names leaves the listener in the sequence of
\* every listed name, and removeListener with a list of names leaves it in the
\* sequence of none of the names it has passed.
C10_EveryListedName == [][C10_Step]_vars

\* what a call with a listener that is not a function does
C11_Step ==
    /\ \A s \in NameStrings, prepend, hasName \in BOOLEAN :
           (last'.op = "addListener" /\ AddListenerCall(s, Undefined, prepend, hasName)) =>
               /\ last'.threw = "TypeError"
               /\ eventMap' = eventMap
               /\ maxListeners' = maxListeners
    /\ \A s \in NameStrings :
           (last'.op = "removeListener" /\ RemoveListenerCall(s, Undefined)) =>
               /\ last'.threw = "TypeError"
               /\ eventMap' = eventMap
               /\ maxListeners' = maxListeners
               /\ stack' = stack
\* C11: addListener and removeListener called with a listener that is not a
\* function throw a TypeError and leave the map (every sequence, the order of
\* the names) and maxListeners as they were, for one name and for a list of
\* names, whether or not the names have listeners; removeListener invokes nothing.
C11_NotCallableChangesNothing == [][C11_Step]_vars

\* addListener('x y', undefined) has thrown while 'x' has listeners and 'y' none
C11_Witness ==
    IF last.op # "addListener" THEN FALSE
    ELSE IF last.threw # "TypeError" THEN FALSE
    ELSE /\ last.several
         /\ listenerCount(eventMap, "x") >= 1
         /\ listenerCount(eventMap, "y") = 0

\* what assigning maxListeners a value the setter rejects does
C12_Step ==
    \A n \in MaxInputs :
        (last'.op = "setMaxListeners" /\ SetMaxListenersCall(n)) =>
            /\ (n.type # "number" \/ IsNaN(n)) =>
                   last'.threw = "TypeError" /\ maxListeners' = maxListeners
            /\ (n.type = "number" /\ IsNegative(n)) =>
                   last'.threw = "RangeError" /\ maxListeners' = maxListeners
\* C12: assigning maxListeners a value that is not a number, or NaN, throws a
\* TypeError, assigning a negative number throws a RangeError, and either leaves
\* the value maxListeners had, whatever that value was.
C12_RejectedValueKeepsPrevious == [][C12_Step]_vars

\* a negative value was rejected when maxListeners was not the default
C12_Witness ==
    IF last.op # "setMaxListeners" THEN FALSE
    ELSE /\ last.threw = "RangeError"
         /\ maxListeners # Num(DEFAULT_MAX_LISTENERS)

\* what assigning 0 stores, and what addListener and once do while it is stored
C13_Step ==
    /\ (last'.op = "setMaxListeners" /\ SetMaxListenersCall(Num(0))) =>
           /\ last'.threw = "none"
           /\ maxListeners' = Infinity
           /\ maxListeners' # Num(0)
    /\ maxListeners = Infinity =>
           /\ \A s \in NameStrings, l \in Fns, prepend, hasName \in BOOLEAN :
                  (last'.op = "addListener" /\ AddListenerCall(s, l, prepend, hasName)) =>
                      /\ last'.threw = "none"
                      /\ AddListenerResult(eventMap, s, l, prepend, maxListeners,
                                           hasName).warned = 0
           /\ last'.op = "once" => last'.threw = "none"
\* C13: maxListeners = 0 stores Infinity (which the getter returns), and while
\* Infinity is stored no addListener call comes to the warning, whatever the
\* listener count of the name: none warns and none throws.
C13_ZeroMeansUnbounded == [][C13_Step]_vars

\* a listener was added to a name that held listeners while Infinity was stored
C13_Witness ==
    IF last.op # "addListener" THEN FALSE
    ELSE IF last.threw # "none" THEN FALSE
    ELSE /\ maxListeners = Infinity
         /\ \E j \in DOMAIN Split(last.names) :
                listenerCount(eventMap, Split(last.names)[j]) >= 2

\* what addListener does with a function, at the threshold or not
C14_Step ==
    \A s \in NameStrings, l \in Fns, prepend, hasName \in BOOLEAN :
        (last'.op = "addListener" /\ AddListenerCall(s, l, prepend, hasName)) =>
            /\ last'.threw = "none"
            /\ \A j \in DOMAIN Split(s) :
                   Occurrences(listeners(eventMap', Split(s)[j]), l) >
                       Occurrences(listeners(eventMap, Split(s)[j]), l)
\* C14: an addListener call with a function does not throw and inserts the
\* listener under every listed name, also when the count of a name equals
\* maxListeners and the warning is due.
C14_WarningDoesNotBlock == [][C14_Step]_vars

\* what an exception leaving a listener's body does
C15_Step ==
    (last'.op = "raise" /\ ListenerRaise) =>
        /\ Len(stack') < Len(stack)
        /\ stack' = SubSeq(stack, 1, Len(stack'))
        /\ stack' # <<>> =>
               /\ stack'[Len(stack')].kind = "emit"
               /\ stack'[Len(stack')].phase = "user"
        /\ Len(Top.invoked) = Top.k
        /\ \A i \in 1..Top.k : Top.invoked[i].l = Top.atCall[i]
        /\ eventMap' = eventMap
        /\ maxListeners' = maxListeners
\* C15: when the body of the k-th listener of an emission raises, the emit call
\* is left without invoking the listeners after the k-th (the first k have been
\* invoked once each, in order), the exception arrives at the caller of emit
\* (the program outside, or the listener body that called it), and the map is
\* as it was when the listener raised.
C15_RaiseAbortsEmission == [][C15_Step]_vars

\* the second of three listeners raised and the exception reached the program outside
C15_Witness ==
    IF last.op # "raise" THEN FALSE
    ELSE last.between /\ stack = <<>>

\* whether l is a once() closure made for the function f
AdapterOf(l, f) == l.once # 0 /\ l.fn = f.fn

\* what removeListener(names, f) leaves of the once() closures, and what the
\* invocation of a once() closure does
C16_Step ==
    /\ \A s \in NameStrings, f \in OnceFns :
           (last'.op = "removeListener" /\ RemoveListenerCall(s, f)) =>
               \A j \in 1..Passed(s) :
                   LET n == Split(s)[j]
                       old == listeners(eventMap, n)
                       new == listeners(eventMap', n)
                   IN  /\ SelectSeq(new, LAMBDA x : x.once # 0) =
                              SelectSeq(old, LAMBDA x : x.once # 0)
                       /\ f \notin Range(old) => Len(new) = Len(old)
    /\ \A d \in DOMAIN stack' :
           IF stack'[d].kind # "emit" THEN TRUE
           ELSE IF stack'[d].phase # "user" THEN TRUE
           ELSE LET l == stack'[d].listeners[stack'[d].k]
                IN  l.once # 0 => fired'[l.once] >= 1
\* C16: removeListener(name, f), called with the function f that was passed to
\* once, leaves every once() closure where it was in name's sequence, and leaves
\* listenerCount(name) as it was when f itself is not in the sequence; an emit
\* that comes to a once() closure invokes the function passed to once.
C16_RemovingOriginalKeepsAdapter == [][C16_Step]_vars

\* a removeListener('x', f) in progress has passed 'x', whose sequence still
\* holds the once() closure made for f
C16_Witness ==
    /\ nested = 0
    /\ \E d \in DOMAIN stack :
           IF stack[d].kind # "remove" THEN FALSE
           ELSE /\ stack[d].l \in OnceFns
                /\ \E x \in Range(listeners(eventMap, stack[d].names[stack[d].i - 1])) :
                       AdapterOf(x, stack[d].l)

\* what removeAllListeners does
C17_Step ==
    \A s \in NameStrings :
        (last'.op = "removeAllListeners" /\ RemoveAllListenersCall(s)) =>
            /\ ~MapHas(eventMap', Concat(s))
            /\ listeners(eventMap', Concat(s)) = <<>>
            /\ \A n \in AllNames \ {Concat(s)} :
                   listeners(eventMap', n) = listeners(eventMap, n)
            /\ eventNames(eventMap') =
                   SelectSeq(eventNames(eventMap), LAMBDA n : n # Concat(s))
            /\ stack' = stack
            /\ maxListeners' = maxListeners
\* C17: removeAllListeners(name) leaves no entry for name, whatever it held,
\* leaves the sequence of every other name, the order of the names and
\* maxListeners as they were, and starts no emit: no listener is invoked, those
\* of 'removeListener' included.
C17_RemoveAllIsSilent == [][C17_Step]_vars

\* a listener of the name being emitted has called removeAllListeners for that
\* name while 'removeListener' has listeners: the entry is gone, no emit began
C17_Witness ==
    IF stack = <<>> \/ last.op # "removeAllListeners" THEN FALSE
    ELSE /\ Len(stack) = 1
         /\ Top.name # "removeListener"
         /\ ~MapHas(eventMap, Top.name)
         /\ MapHas(eventMap, "removeListener")

\* how a step changes eventNames()
C18_Step ==
    LET old == eventNames(eventMap)
        new == eventNames(eventMap')
        kept == SelectSeq(old, LAMBDA n : n \in Range(new))
    IN  /\ \A n \in AllNames :
               Cardinality({ i \in DOMAIN new : new[i] = n }) =
                   (IF listenerCount(eventMap', n) >= 1 THEN 1 ELSE 0)
        /\ Len(kept) <= Len(new)
        /\ SubSeq(new, 1, Len(kept)) = kept
        /\ \A i \in (Len(kept) + 1)..Len(new) : new[i] \notin Range(old)
        /\ \A s \in NameStrings, l \in Fns :
               (last'.op = "removeListener" /\ RemoveListenerCall(s, l)) =>
                   \A n \in Range(old) :
                       listenerCount(eventMap', n) >= 1 =>
                           /\ n \in Range(new)
                           /\ \A m \in Range(new) :
                                  MapIndex(eventMap, m) < MapIndex(eventMap, n) =>
                                      MapIndex(eventMap', m) < MapIndex(eventMap', n)
\* C18: eventNames() holds each name that has listeners once and no other; a
\* step leaves the names that stay in their former order and puts the names it
\* inserts after them, so the order is that of insertion into the map; a name
\* that a removeListener call leaves with listeners keeps its place.
C18_EventNamesInInsertionOrder == [][C18_Step]_vars

\* a removeListener call in progress has taken the listener from the one name
\* it was given, which keeps listeners and is still the first of two or more names
C18_Witness ==
    IF ~HasRemoved \/ Len(stack) # 2 THEN FALSE
    ELSE IF stack[1].kind # "remove" THEN FALSE
    ELSE /\ last.shrunk
         /\ Len(eventMap) >= 2
         /\ stack[1].names = <<eventMap[1].key>>
         /\ stack[1].l \notin Range(eventMap[1].val)

\* what once() with a list of names registers, and what the end of the first
\* invocation of its closure leaves
C19_Step ==
    /\ \A s \in OnceNames \ SingleNames, f \in OnceFns, prepend, hasName \in BOOLEAN :
           (last'.op = "once" /\ OnceCall(s, f, prepend, hasName)) =>
               \A j \in DOMAIN Split(s) :
                   \E x \in Range(listeners(eventMap', Split(s)[j])) :
                       AdapterOf(x, f) /\ x.names = s
    /\ \A d \in DOMAIN stack :
           C4_FirstFiringEnds(d) =>
               LET l == stack[d].listeners[stack[d].k]
               IN  \A j \in DOMAIN Split(l.names) :
                       l \notin Range(listeners(eventMap', Split(l.names)[j]))
\* C19: once(names, f) with a list of names puts one closure under every listed
\* name, and when the first invocation of the closure has ended the closure is
\* under none of the listed names.
C19_OnceRemovedFromEveryName == [][C19_Step]_vars

\* what a step does to the emits in progress below the innermost call
C20_Step ==
    /\ \A d \in DOMAIN stack :
           d < Len(stack) =>
               /\ Len(stack') >= d => stack'[d].kind = stack[d].kind
               /\ (Len(stack') >= d /\ stack[d].kind = "emit") =>
                      /\ stack'[d].listeners = stack[d].listeners
                      /\ SubSeq(stack'[d].invoked, 1, Len(stack[d].invoked)) = stack[d].invoked
               /\ Len(stack') > d => stack'[d] = stack[d]
    /\ (IF last'.op = "emit" THEN last'.ret = "pending" ELSE FALSE) =>
           /\ Len(stack') = Len(stack) + 1
           /\ SubSeq(stack', 1, Len(stack)) = stack
    /\ (last'.op = "emit" /\ EmitReturn) =>
           /\ stack' = Pop(stack)
           /\ Len(Top.invoked) = Len(Top.atCall)
           /\ \A i \in DOMAIN Top.atCall : Top.invoked[i].l = Top.atCall[i]
\* C20: an emit called by a listener runs above the emit that invoked the
\* listener: while it is in progress the outer emit invokes nothing and its
\* copy of the listeners stays as it is, and when it returns it has invoked its
\* own whole snapshot and the outer emit is where it was, its next listener
\* still to come.
C20_NestedEmitRunsToCompletion == [][C20_Step]_vars

\* the emit a listener called for another name has invoked its whole snapshot,
\* and the outer emit still has a listener to come
C20_Witness ==
    IF Len(stack) # 2 THEN FALSE
    ELSE IF stack[1].kind # "emit" \/ ~Finished(stack[2]) THEN FALSE
    ELSE /\ stack[1].name # stack[2].name
         /\ Len(stack[2].invoked) >= 1
         /\ stack[1].phase = "user"
         /\ stack[1].k < Len(stack[1].listeners)

====
